---------------------------- MODULE Spec2Model ----------------------------
(***************************************************************************)
(* A model of gepare (src/src/gepare.py): the lazy Expander over a layered *)
(* scope, the deep merge ndupdate, the configuration loader read_inputs,   *)
(* and the Origin operations (refresh, update, clone, status, bootstrap).  *)
(*                                                                         *)
(* Python values are tagged records [k |-> kind, v |-> payload]; a Python  *)
(* str is a sequence of one-character strings, so that formatting,         *)
(* quoting and path handling are computed character by character.          *)
(***************************************************************************)
EXTENDS Integers, Sequences, FiniteSets, TLC

VARIABLES
    escope,   \* Expander: the mapping the Expander wraps (a chain of layers)
    ekey,     \* Expander: the key of the last get()
    eres,     \* Expander: what the last get() returned
    ndD,      \* ndupdate: the destination mapping d
    ndPrev,   \* ndupdate: d as it was before the last call
    ndSrc,    \* ndupdate: the source mapping s of the last call
    ndErr,    \* ndupdate: <<>>, or the arguments of the TypeError the last call raised
    ndN,      \* ndupdate: the number of calls so far
    ndDef,    \* main: the -D definition read last, or NoDef
    input,    \* loader: the merged tree and the environment as read_inputs found them
    config,   \* loader: the tree's package and global tables, updated in place
    packages, \* loader: the Package records made so far, by manifest key
    loaded,   \* loader: the keys of packages, in insertion order
    errs,     \* loader: the diagnostics written to the error stream
    lpc,      \* loader: the number of manifest entries already visited
    lstate,   \* loader: "start", "packages", "done", or the exception that ended it
    look,     \* loader: the last read through a Package's info
    lout,     \* loader: the last list built from the returned packages
    margs,    \* main: the command line: all, bootstrap, refresh, status, package
    mpkgs,    \* main: the selected packages, in the order of packages.items()
    mpc,      \* main: the number of origin operations already called
    mlog,     \* main: the operations called so far, as <<package key, operation>>
    mstate,   \* main: "ops", "done" (returned 0) or "raised" (ended by an exception)
    fs,       \* origins: what is on the filesystem, by package key
    cmds,     \* origins: the external commands run so far, with their exit codes
    out,      \* origins: the lines written to standard output
    oerr,     \* origins: the diagnostics written to the error stream
    ocall,    \* origins: the last operation called, and the state it was called in
    ores,     \* origins: what the last operation returned, or the exception it raised
    wlists,   \* list files: the file configured for each list variant, or NoFile
    wtodo,    \* list files: the variants the loop has not visited yet
    wcur,     \* list files: the variant being written, "-" before the first
    wpc,      \* list files: the next step: "loop", "backup", "rename", "open", "write",
              \*   "done" (returned 0) or "raised" (ended by an exception)
    wdir,     \* list files: whether the directory of the list files exists
    wfiles,   \* list files: the content of each file of that directory
    wprev,    \* list files: the content of the file being written, as the visit found it
    wdiag     \* list files: the variants reported as having no file

evars == <<escope, ekey, eres>>
ndvars == <<ndD, ndPrev, ndSrc, ndErr, ndN, ndDef>>
lvars == <<input, config, packages, loaded, errs, lpc, lstate, look, lout>>
ovars == <<margs, mpkgs, mpc, mlog, mstate, fs, cmds, out, oerr, ocall, ores>>
wvars == <<wlists, wtodo, wcur, wpc, wdir, wfiles, wprev, wdiag>>

vars == <<escope, ekey, eres, ndD, ndPrev, ndSrc, ndErr, ndN, ndDef,
          input, config, packages, loaded, errs, lpc, lstate, look, lout,
          margs, mpkgs, mpc, mlog, mstate, fs, cmds, out, oerr, ocall, ores,
          wlists, wtodo, wcur, wpc, wdir, wfiles, wprev, wdiag>>

---------------------------------------------------------------------------
(* Python values *)

Str(s)  == [k |-> "str", v |-> s]
IntV(n) == [k |-> "int", v |-> n]
Bool(b) == [k |-> "bool", v |-> b]
List(q) == [k |-> "list", v |-> q]
Map(f)  == [k |-> "map", v |-> f]
None    == [k |-> "none", v |-> 0]
Exc(e)  == [k |-> "exc", v |-> e]

IsExc(x) == x.k = "exc"

\* the spelling of every key the model's mappings use
KeyChars ==
    [a |-> <<"a">>, b |-> <<"b">>, c |-> <<"c">>, zz |-> <<"z", "z">>,
     t |-> <<"t">>, v |-> <<"v">>,
     key |-> <<"k", "e", "y">>, name |-> <<"n", "a", "m", "e">>,
     template |-> <<"t", "e", "m", "p", "l", "a", "t", "e">>,
     load |-> <<"l", "o", "a", "d">>, dst |-> <<"d", "s", "t">>,
     src |-> <<"s", "r", "c">>, vcs |-> <<"v", "c", "s">>,
     package |-> <<"p", "a", "c", "k", "a", "g", "e">>,
     global |-> <<"g", "l", "o", "b", "a", "l">>, env |-> <<"e", "n", "v">>,
     CONFIG_HOME |-> <<"C", "O", "N", "F", "I", "G", "_", "H", "O", "M", "E">>,
     DATA_HOME |-> <<"D", "A", "T", "A", "_", "H", "O", "M", "E">>,
     STATE_HOME |-> <<"S", "T", "A", "T", "E", "_", "H", "O", "M", "E">>,
     CACHE_HOME |-> <<"C", "A", "C", "H", "E", "_", "H", "O", "M", "E">>]

Keys == DOMAIN KeyChars

\* the keys the Expander specification asks for and its templates name
ExpandKeys == {"a", "b", "c", "zz"}

\* the key a replacement field names; "?" (never a key of a mapping) if none
KeyOf(field) ==
    IF \E key \in Keys : KeyChars[key] = field
    THEN CHOOSE key \in Keys : KeyChars[key] = field
    ELSE "?"

---------------------------------------------------------------------------
(* str(x), as the format protocol applies it to a substituted value *)

Digit(n) == <<"0", "1", "2", "3", "4", "5", "6", "7", "8", "9">>[n + 1]

RECURSIVE NatStr(_)
NatStr(n) == IF n < 10 THEN <<Digit(n)>> ELSE NatStr(n \div 10) \o <<Digit(n % 10)>>

IntStr(n) == IF n < 0 THEN <<"-">> \o NatStr(-n) ELSE NatStr(n)

RECURSIVE ReprSeq(_)
ReprAtom(x) ==
    CASE x.k = "str"  -> <<"'">> \o x.v \o <<"'">>
      [] x.k = "int"  -> IntStr(x.v)
      [] x.k = "bool" -> IF x.v THEN <<"T", "r", "u", "e">> ELSE <<"F", "a", "l", "s", "e">>
      [] OTHER        -> <<"N", "o", "n", "e">>
ReprSeq(q) ==
    IF q = <<>> THEN <<>>
    ELSE IF Len(q) = 1 THEN ReprAtom(q[1])
    ELSE ReprAtom(q[1]) \o <<",", " ">> \o ReprSeq(Tail(q))

ToStr(x) ==
    CASE x.k = "str"  -> x.v
      [] x.k = "list" -> <<"[">> \o ReprSeq(x.v) \o <<"]">>
      [] x.k = "map"  -> <<"{", ".", ".", ".", "}">>
      [] OTHER        -> ReprAtom(x)

---------------------------------------------------------------------------
(* ChainMap: the first layer that holds the key *)

ChainHas(layers, key) == \E i \in 1..Len(layers) : key \in DOMAIN layers[i]

ChainGet(layers, key) ==
    layers[CHOOSE i \in 1..Len(layers) :
               /\ key \in DOMAIN layers[i]
               /\ \A j \in 1..(i - 1) : key \notin DOMAIN layers[j]][key]

---------------------------------------------------------------------------
(* Expander *)

\* nesting depth at which the interpreter gives up with RecursionError
RecursionLimit == 5

\* position of the first ch at or after i in s, 0 if there is none
RECURSIVE Find(_, _, _)
Find(s, ch, i) ==
    IF i > Len(s) THEN 0 ELSE IF s[i] = ch THEN i ELSE Find(s, ch, i + 1)

Cons(ch, r) == IF IsExc(r) THEN r ELSE Str(<<ch>> \o r.v)

RECURSIVE GetItem(_, _, _)
RECURSIVE FormatFrom(_, _, _, _)

\* s.format_map(self), from position i of s on
FormatFrom(scope, s, i, depth) ==
    IF i > Len(s) THEN Str(<<>>)
    ELSE IF s[i] = "{" THEN
        IF i = Len(s) THEN Exc("ValueError")
        ELSE IF s[i + 1] = "{" THEN Cons("{", FormatFrom(scope, s, i + 2, depth))
        ELSE LET j == Find(s, "}", i + 1)
                 o == Find(s, "{", i + 1)
             IN  IF j = 0 \/ (o # 0 /\ o < j) THEN Exc("ValueError")
                 ELSE IF j = i + 1 THEN Exc("ValueError")
                 ELSE LET obj == GetItem(scope, KeyOf(SubSeq(s, i + 1, j - 1)), depth + 1)
                      IN  IF IsExc(obj) THEN obj
                          ELSE LET rest == FormatFrom(scope, s, j + 1, depth)
                               IN  IF IsExc(rest) THEN rest
                                   ELSE Str(ToStr(obj) \o rest.v)
    ELSE IF s[i] = "}" THEN
        IF i < Len(s) /\ s[i + 1] = "}" THEN Cons("}", FormatFrom(scope, s, i + 2, depth))
        ELSE Exc("ValueError")
    ELSE Cons(s[i], FormatFrom(scope, s, i + 1, depth))

ExpandAt(scope, s, depth) == FormatFrom(scope, s, 1, depth)

\* a slip: nested values are read from the wrapped mapping, not through the Expander
GetItemShallow(scope, key, depth) ==
    IF depth > RecursionLimit THEN Exc("RecursionError")
    ELSE IF ~ChainHas(scope, key) THEN Exc("KeyError")
    ELSE LET value == ChainGet(scope, key)
         IN  IF value.k = "str" /\ depth = 0 THEN ExpandAt(scope, value.v, depth) ELSE value

\* Expander.__getitem__
GetItem(scope, key, depth) ==
    IF depth > RecursionLimit THEN Exc("RecursionError")
    ELSE IF ~ChainHas(scope, key) THEN Exc("KeyError")
    ELSE LET value == ChainGet(scope, key)
         IN  IF value.k = "str" THEN ExpandAt(scope, value.v, depth) ELSE value

\* Expander.expand
Expand(scope, s) == ExpandAt(scope, s, 0)

\* Expander.__contains__
Contains(scope, key) == ChainHas(scope, key)

\* a slip: every failure of the lookup gives the default
GetCatchAll(scope, key, default) ==
    LET r == GetItem(scope, key, 0)
    IN  IF IsExc(r) THEN default ELSE r

\* Expander.get
Get(scope, key, default) ==
    LET r == GetItem(scope, key, 0)
    IN  IF r = Exc("KeyError") THEN default ELSE r

---------------------------------------------------------------------------
(* pathlib: a path is kept as the characters of str(path) *)

\* the components of s between "/"s, from position i on; cur is the one being read.
\* Empty components and "." components are dropped.
RECURSIVE PathParts(_, _, _)
PathParts(s, i, cur) ==
    LET done == IF cur = <<>> \/ cur = <<".">> THEN <<>> ELSE <<cur>>
    IN  IF i > Len(s) THEN done
        ELSE IF s[i] = "/" THEN done \o PathParts(s, i + 1, <<>>)
        ELSE PathParts(s, i + 1, Append(cur, s[i]))

RECURSIVE JoinParts(_)
JoinParts(parts) ==
    IF parts = <<>> THEN <<>>
    ELSE IF Len(parts) = 1 THEN parts[1]
    ELSE parts[1] \o <<"/">> \o JoinParts(Tail(parts))

IsAbsolute(s) == s # <<>> /\ s[1] = "/"

PathStr(abs, parts) ==
    IF abs THEN <<"/">> \o JoinParts(parts)
    ELSE IF parts = <<>> THEN <<".">> ELSE JoinParts(parts)

\* str(Path(s))
PathOf(s) == PathStr(IsAbsolute(s), PathParts(s, 1, <<>>))

\* str(Path(p) / s)
PathJoin(p, s) == IF IsAbsolute(s) THEN PathOf(s) ELSE PathOf(p \o <<"/">> \o s)

\* str(Path(p).parent)
PathParent(p) ==
    LET parts == PathParts(p, 1, <<>>)
    IN  PathStr(IsAbsolute(p), IF parts = <<>> THEN parts ELSE SubSeq(parts, 1, Len(parts) - 1))

\* s.endswith(suffix)
EndsWith(s, suffix) ==
    /\ Len(s) >= Len(suffix)
    /\ SubSeq(s, Len(s) - Len(suffix) + 1, Len(s)) = suffix

---------------------------------------------------------------------------
(* ndupdate *)

SetV(S) == [k |-> "set", v |-> S]

EmptyMap == [key \in {} |-> None]

Put(d, key, value) == [x \in DOMAIN d \cup {key} |-> IF x = key THEN value ELSE d[x]]

\* the order in which a source mapping's items are visited
NdKeyOrder ==
    <<"a", "b", "x", "y", "c", "zz", "t", "v", "key", "name", "template", "load", "dst",
      "src", "vcs", "package", "global", "env", "list", "output",
      "CONFIG_HOME", "DATA_HOME", "STATE_HOME", "CACHE_HOME">>

ItemOrder(s) == SelectSeq(NdKeyOrder, LAMBDA key : key \in DOMAIN s)

\* the items d[k] += v appends: the elements of a list, the characters of a str
Elements(v) == IF v.k = "str" THEN [i \in 1..Len(v.v) |-> Str(<<v.v[i]>>)] ELSE v.v

IsMutableMapping(x) == x.k = "map"
IsMapping(x) == x.k = "map"
IsMutableSequence(x) == x.k = "list"
IsSequence(x) == x.k \in {"list", "str"}
IsMutableSet(x) == x.k = "set"
IsSet(x) == x.k = "set"
SameType(x, y) == x.k = y.k

\* a slip: a sequence replaces the destination's instead of being appended to it
ExtendOverwrite(dv, v) == List(Elements(v))

\* d[k] += v on a list
Extend(dv, v) == List(dv.v \o Elements(v))

\* ndupdate(d, s): [d |-> d afterwards, err |-> <<>> or the TypeError's arguments]
RECURSIVE NdItems(_, _, _)
NdItems(d, s, ks) ==
    IF ks = <<>> THEN [d |-> d, err |-> <<>>]
    ELSE LET key == ks[1]
             v == s[key]
         IN  IF key \notin DOMAIN d THEN NdItems(Put(d, key, v), s, Tail(ks))
             ELSE IF IsMutableMapping(d[key]) /\ IsMapping(v) THEN
                 LET r == NdItems(d[key].v, v.v, ItemOrder(v.v))
                 IN  IF r.err # <<>> THEN [d |-> Put(d, key, Map(r.d)), err |-> r.err]
                     ELSE NdItems(Put(d, key, Map(r.d)), s, Tail(ks))
             ELSE IF IsMutableSequence(d[key]) /\ IsSequence(v) THEN
                 NdItems(Put(d, key, Extend(d[key], v)), s, Tail(ks))
             ELSE IF IsMutableSet(d[key]) /\ IsSet(v) THEN
                 NdItems(Put(d, key, SetV(d[key].v \cup v.v)), s, Tail(ks))
             ELSE IF SameType(d[key], v) THEN NdItems(Put(d, key, v), s, Tail(ks))
             ELSE [d |-> d, err |-> <<key, d[key], v>>]

NdUpdate(d, s) == NdItems(d, s, ItemOrder(s))

\* ord(c), for the characters of the values defined on the command line;
\* "DEL" stands for the one character U+007F
Ord ==
    ("t" :> 116) @@ ("x" :> 120) @@ ("u" :> 117) @@ ("\"" :> 34) @@ ("\\" :> 92)
    @@ ("\t" :> 9) @@ ("DEL" :> 127) @@ ("0" :> 48) @@ ("2" :> 50)

HexDigits == <<"0", "1", "2", "3", "4", "5", "6", "7", "8", "9", "A", "B", "C", "D", "E", "F">>

\* f'{a:04X}'
Hex4(a) ==
    <<HexDigits[((a \div 4096) % 16) + 1], HexDigits[((a \div 256) % 16) + 1],
      HexDigits[((a \div 16) % 16) + 1], HexDigits[(a % 16) + 1]>>

\* toml_escape(s)
RECURSIVE toml_escape(_)
toml_escape(s) ==
    IF s = <<>> THEN <<>>
    ELSE LET a == Ord[s[1]]
             c == IF a = 34 \/ a = 92 \/ a < 32 THEN <<"\\", "u">> \o Hex4(a) ELSE <<s[1]>>
         IN  c \o toml_escape(Tail(s))

\* int(digits, 16), or -1 where a character is not a hexadecimal digit
RECURSIVE FromHex(_, _)
FromHex(digits, n) ==
    IF digits = <<>> THEN n
    ELSE IF \E i \in 1..16 : HexDigits[i] = digits[1]
         THEN FromHex(Tail(digits), 16 * n + (CHOOSE i \in 1..16 : HexDigits[i] = digits[1]) - 1)
         ELSE -1

\* the characters a TOML basic string may not hold unescaped
IllegalInBasicString(c) == (Ord[c] < 32 /\ Ord[c] # 9) \/ Ord[c] = 127

\* tomllib on the text after the opening quote of NAME = "...": the str the
\* basic string stands for, or the TOMLDecodeError
RECURSIVE BasicString(_, _, _)
BasicString(text, i, acc) ==
    IF i > Len(text) THEN Exc("TOMLDecodeError")
    ELSE IF text[i] = "\"" THEN (IF i = Len(text) THEN Str(acc) ELSE Exc("TOMLDecodeError"))
    ELSE IF text[i] = "\\" THEN
        IF i + 1 <= Len(text) /\ text[i + 1] \in {"\"", "\\"}
        THEN BasicString(text, i + 2, Append(acc, text[i + 1]))
        ELSE IF i + 1 <= Len(text) /\ text[i + 1] = "t"
        THEN BasicString(text, i + 2, Append(acc, "\t"))
        ELSE IF i + 5 <= Len(text) /\ text[i + 1] = "u"
                /\ \E c \in DOMAIN Ord : Ord[c] = FromHex(SubSeq(text, i + 2, i + 5), 0)
        THEN BasicString(text, i + 6,
                 Append(acc, CHOOSE c \in DOMAIN Ord : Ord[c] = FromHex(SubSeq(text, i + 2, i + 5), 0)))
        ELSE Exc("TOMLDecodeError")
    ELSE IF IllegalInBasicString(text[i]) THEN Exc("TOMLDecodeError")
    ELSE BasicString(text, i + 1, Append(acc, text[i]))

\* the table tomllib makes of a dotted key and its value
RECURSIVE DottedTable(_, _)
DottedTable(name, value) ==
    IF Len(name) = 1 THEN Put(EmptyMap, name[1], value)
    ELSE Put(EmptyMap, name[1], Map(DottedTable(Tail(name), value)))

NoDef == [name |-> <<>>, value |-> <<>>]

---------------------------------------------------------------------------
(* read_inputs *)

Absent == [k |-> "absent", v |-> 0]

\* bool(x)
Truthy(x) ==
    CASE x.k = "none" -> FALSE
      [] x.k = "bool" -> x.v
      [] x.k = "int"  -> x.v # 0
      [] x.k = "map"  -> DOMAIN x.v # {}
      [] OTHER        -> x.v # <<>>

\* Origin.subclass: the registered kinds, by name
VcsNames == [git |-> <<"g", "i", "t">>, hg |-> <<"h", "g">>, ln |-> <<"l", "n">>]

OriginKinds == DOMAIN VcsNames

\* a slip: a name that is not registered falls back to git
VcsByNameDefaultGit(name) ==
    IF \E kind \in OriginKinds : VcsNames[kind] = name
    THEN CHOOSE kind \in OriginKinds : VcsNames[kind] = name
    ELSE "git"

\* Origin.vcs_by_name
VcsByName(name) ==
    IF \E kind \in OriginKinds : VcsNames[kind] = name
    THEN CHOOSE kind \in OriginKinds : VcsNames[kind] = name
    ELSE "KeyError"

\* Path.cwd() and Path.home()
Cwd == <<"/", "w">>
Home == <<"/", "h">>

\* xdg_dir(name, default_dir), as a string
XdgDir(env, evar, default) ==
    IF evar \in DOMAIN env THEN PathOf(env[evar].v) ELSE PathJoin(Home, default)

\* the global table with the four directories set
WithXdg(glo, env) ==
    LET g1 == Put(glo, "CONFIG_HOME", Str(XdgDir(env, "XDG_CONFIG_HOME", <<".", "c", "o", "n", "f", "i", "g">>)))
        g2 == Put(g1, "DATA_HOME", Str(XdgDir(env, "XDG_DATA_HOME", <<".", "l", "o", "c", "a", "l", "/", "s", "h", "a", "r", "e">>)))
        g3 == Put(g2, "STATE_HOME", Str(XdgDir(env, "XDG_STATE_HOME", <<".", "l", "o", "c", "a", "l", "/", "s", "t", "a", "t", "e">>)))
    IN  Put(g3, "CACHE_HOME", Str(XdgDir(env, "XDG_CACHE_HOME", <<".", "c", "a", "c", "h", "e">>)))

\* gcm = ChainMap({'global': glo, 'env': env}, glo, env)
GlobalScope(glo, env) == << [global |-> Map(glo), env |-> Map(env)], glo, env >>

\* a slip: the template is consulted before the package's own properties
PackageScopeTemplateFirst(properties, template, glo, env) ==
    << [package |-> Map(properties)], template, properties >> \o GlobalScope(glo, env)

\* a slip: the properties are deep-merged over the template
PackageScopeMerged(properties, template, glo, env) ==
    << [package |-> Map(properties)], NdUpdate(template, properties).d, template >>
    \o GlobalScope(glo, env)

\* cm = ChainMap({'package': properties}, properties, template, gcm)
PackageScope(properties, template, glo, env) ==
    << [package |-> Map(properties)], properties, template >> \o GlobalScope(glo, env)

\* ndget(config, ['template', properties['template']], {})
TemplateOf(properties, templates) ==
    IF "template" \notin DOMAIN properties THEN EmptyMap
    ELSE LET ref == properties["template"]
         IN  IF ref.k = "str" /\ KeyOf(ref.v) \in DOMAIN templates
             THEN templates[KeyOf(ref.v)] ELSE EmptyMap

\* a slip: a single string is stored as it is
NormalLoadKeepString(load) ==
    IF load.k \in {"bool", "list", "str"} THEN load ELSE Exc("TypeError")

\* lines 355-360: the load value to store, or the TypeError
NormalLoad(load) ==
    IF load.k \in {"bool", "list"} THEN load
    ELSE IF load.k = "str" THEN List(<<load>>)
    ELSE Exc("TypeError")

Diagnostic(key, name, what) == [pkg |-> key, name |-> ToStr(name), what |-> what]

Raised(p, e) ==
    [props |-> p, outcome |-> "raised", exc |-> e.v, diag |-> <<>>, origin |-> <<>>]
Dropped(p, d) ==
    [props |-> p, outcome |-> "dropped", exc |-> "", diag |-> <<d>>, origin |-> <<>>]
Loaded(p, o) ==
    [props |-> p, outcome |-> "loaded", exc |-> "", diag |-> <<>>, origin |-> <<o>>]

\* lines 370-391, with properties p and the local path dst
LoadOrigin(key, p, name, dst, templates, glo, env) ==
    LET src == Get(PackageScope(p, TemplateOf(p, templates), glo, env), "src", None)
    IN  IF IsExc(src) THEN Raised(p, src)
        ELSE IF src.k # "str" THEN Dropped(p, Diagnostic(key, name, "missing src"))
        ELSE LET vcs == Get(PackageScope(p, TemplateOf(p, templates), glo, env), "vcs", None)
             IN  IF IsExc(vcs) THEN Raised(p, vcs)
                 ELSE IF vcs.k # "str" /\ ~EndsWith(src.v, <<".", "g", "i", "t">>)
                 THEN Dropped(p, Diagnostic(key, name, "missing vcs"))
                 ELSE LET p5 == IF vcs.k # "str" THEN Put(p, "vcs", Str(VcsNames["git"])) ELSE p
                          vname == IF vcs.k # "str" THEN VcsNames["git"] ELSE vcs.v
                          vcls == VcsByName(vname)
                      IN  IF vcls = "KeyError"
                          THEN Dropped(p5, Diagnostic(key, name, "unknown vcs"))
                          ELSE Loaded(p5, [kind |-> vcls, name |-> name,
                                           remote |-> src.v, local |-> dst])

\* lines 363-368, with properties p
LoadDst(key, p, name, templates, glo, env) ==
    LET d == Get(PackageScope(p, TemplateOf(p, templates), glo, env), "dst", None)
    IN  IF IsExc(d) THEN Raised(p, d)
        ELSE IF Truthy(d) THEN
            IF d.k # "str" THEN Raised(p, Exc("TypeError"))
            ELSE LoadOrigin(key, p, name, PathOf(d.v), templates, glo, env)
        ELSE IF name.k # "str" THEN Raised(p, Exc("TypeError"))
        ELSE LET dst == PathJoin(Cwd, name.v)
             IN  LoadOrigin(key, Put(p, "dst", Str(dst)), name, dst, templates, glo, env)

\* one pass of the loop of lines 342-391, for manifest entry key with properties p0
LoadOne(key, p0, templates, glo, env) ==
    LET p1 == Put(p0, "key", Str(KeyChars[key]))
        p2 == IF "name" \in DOMAIN p1 THEN p1 ELSE Put(p1, "name", Str(KeyChars[key]))
        name == p2["name"]
        got == Get(PackageScope(p2, TemplateOf(p2, templates), glo, env), "load", Bool(TRUE))
    IN  IF IsExc(got) THEN Raised(p2, got)
        ELSE LET load == NormalLoad(got)
             IN  IF IsExc(load) THEN Raised(p2, load)
                 ELSE LoadDst(key, Put(p2, "load", load), name, templates, glo, env)

\* package.info of a loaded package: the chain over the tables as they are now
InfoScope(key) ==
    PackageScope(config.package[key], TemplateOf(config.package[key], input.template),
                 config.global, input.env)

NoLook == [pkg |-> "-", key |-> "-", res |-> None]

NoList == [variant |-> "-", res |-> None]

\* the spelling of the list variants
VariantChars == [one |-> <<"o", "n", "e">>, two |-> <<"t", "w", "o">>, zz |-> <<"z", "z">>]

\* ndget(config, ['list', variant, ...], default): the keys and the item
\* templates of a variant, for the global scope and for each package
ListPart(lists, variant, part) ==
    IF variant \in DOMAIN lists THEN lists[variant][part] ELSE <<>>

\* str(r), unless getting r raised an exception
LineOf(r) == IF IsExc(r) THEN r ELSE Str(ToStr(r))

\* out after the appends that gave got, or the first exception among them
Gathered(got) ==
    IF \E i \in 1..Len(got) : IsExc(got[i])
    THEN got[CHOOSE i \in 1..Len(got) : IsExc(got[i]) /\ \A j \in 1..(i - 1) : ~IsExc(got[j])]
    ELSE List(got)

\* the lines of first, then those of rest, or the first exception
Joined(first, rest) ==
    IF IsExc(first) THEN first ELSE IF IsExc(rest) THEN rest ELSE List(first.v \o rest.v)

\* str(info.get(k)) for each k of keys, then template.format_map(info) for each
\* template of items; the exception of the first of them that raises one
LinesOf(scope, keys, items) ==
    Gathered([i \in 1..Len(keys) |-> LineOf(Get(scope, keys[i], None))]
             \o [i \in 1..Len(items) |-> Expand(scope, items[i])])

\* a slip: any list that is not empty asks for every variant
ListedIfTruthy(load, variant) == Truthy(load)

\* lines 426-429: whether a package with this load is in the list of variant
Listed(load, variant) ==
    IF load.k = "list"
    THEN \E i \in 1..Len(load.v) : load.v[i] = Str(VariantChars[variant])
    ELSE Truthy(load)

\* lines 429-436: the lines of a package, when its load asks for the variant
IfListed(load, variant, lines) ==
    IF IsExc(load) THEN load ELSE IF Listed(load, variant) THEN lines ELSE List(<<>>)

\* lines 425-436 of build_list, for the packages keys[i..]
RECURSIVE PackageLines(_, _, _, _)
PackageLines(lists, variant, keys, i) ==
    IF i > Len(keys) THEN List(<<>>)
    ELSE Joined(IfListed(Get(InfoScope(keys[i]), "load", None), variant,
                         LinesOf(InfoScope(keys[i]), ListPart(lists, variant, "pkeys"),
                                 ListPart(lists, variant, "pitems"))),
                PackageLines(lists, variant, keys, i + 1))

\* build_list(variant, packages, ginfo, config): the lines joined by '\n', the
\* last of them empty
build_list(variant, keys, lists, glo, env) ==
    Joined(Joined(LinesOf(GlobalScope(glo, env), ListPart(lists, variant, "gkeys"),
                          ListPart(lists, variant, "gitems")),
                  PackageLines(lists, variant, keys, 1)),
           List(<<Str(<<>>)>>))

LoadOff ==
    /\ input = <<>>
    /\ config = <<>>
    /\ packages = <<>>
    /\ loaded = <<>>
    /\ errs = <<>>
    /\ lpc = 0
    /\ lstate = "off"
    /\ look = NoLook
    /\ lout = NoList

---------------------------------------------------------------------------
(* Origins *)

\* Text written to standard output is a sequence of pieces whose concatenation
\* is the line: the fixed text of a print is kept as whole pieces, everything
\* interpolated into it is there character by character.

RECURSIVE EscapeChars(_)
EscapeChars(s) ==
    IF s = <<>> THEN <<>>
    ELSE (IF s[1] \in {"\"", "\\"} THEN <<"\\", s[1]>> ELSE <<s[1]>>) \o EscapeChars(Tail(s))

\* a slip: only the double quote is escaped
RECURSIVE EscapeQuotes(_)
EscapeQuotes(s) ==
    IF s = <<>> THEN <<>>
    ELSE (IF s[1] = "\"" THEN <<"\\", s[1]>> ELSE <<s[1]>>) \o EscapeQuotes(Tail(s))

shell_escape_quotes(s) == <<"\"">> \o EscapeQuotes(s) \o <<"\"">>

\* shell_escape(s), interpolatable
shell_escape(s) == <<"\"">> \o EscapeChars(s) \o <<"\"">>

\* What is at an origin's local path: nothing, a regular file, a plain directory,
\* a directory with .git or .hg in it, a symbolic link to the directory the
\* remote names ("link") or to some other directory ("linkx").
LocalStates == {"absent", "file", "dir", "gitrepo", "hgrepo", "link", "linkx"}

\* local.exists(), local.is_dir(), local.is_symlink()
Exists(f) == f.local # "absent"
IsDir(f) == f.local \notin {"absent", "file"}
IsSymlink(f) == f.local \in {"link", "linkx"}

\* local.joinpath('.git').is_dir(), local.joinpath('.hg').is_dir()
Marker == [git |-> "gitrepo", hg |-> "hgrepo"]

\* OriginStatus
Status(name) == [k |-> "status", v |-> name]

\* what a method did: its return value (or the exception), the filesystem after
\* it, the commands it ran, the lines it printed, its diagnostics, the calls made
Did(ret, f, c, o, e, t) == [ret |-> ret, fs |-> f, cmds |-> c, out |-> o, err |-> e, trace |-> t]

\* m, then the method that gave r, in the order called
After(m, r) == [r EXCEPT !.trace = m \o r.trace]

\* error(f'{name}: ...')
Complaint(o, what) == [key |-> o.key, what |-> what]

\* Origin.check_local_is_dir
check_local_is_dir(o, f) ==
    IF ~Exists(f) THEN Did(Bool(FALSE), f, <<>>, <<>>, <<Complaint(o, "does not exist")>>, <<>>)
    ELSE IF ~IsDir(f) THEN Did(Bool(FALSE), f, <<>>, <<>>, <<Complaint(o, "is not a directory")>>, <<>>)
    ELSE Did(Bool(TRUE), f, <<>>, <<>>, <<>>, <<>>)

\* Origin.check_local_is_available
check_local_is_available(o, f) ==
    IF Exists(f) THEN Did(Bool(FALSE), f, <<>>, <<>>, <<Complaint(o, "already exists")>>, <<>>)
    ELSE IF f.parent = "dir" THEN Did(Bool(TRUE), f, <<>>, <<>>, <<>>, <<>>)
    ELSE IF f.parent = "absent"
         THEN Did(Bool(TRUE), [f EXCEPT !.parent = "dir"], <<>>, <<>>, <<>>, <<>>)
    ELSE Did(Bool(FALSE), f, <<>>, <<>>, <<Complaint(o, "could not be created")>>, <<>>)

\* a slip: only that the local path is a directory is checked
CheckIsDir(o, f) == After(<<"_check">>, check_local_is_dir(o, f))

\* GitOrigin._check, MercurialOrigin._check, SymlinkOrigin._check
Check(o, f) ==
    LET d == check_local_is_dir(o, f)
    IN  IF d.ret = Bool(FALSE) THEN After(<<"_check">>, d)
        ELSE IF o.kind = "ln" THEN
            IF ~IsSymlink(f)
            THEN Did(Bool(FALSE), f, <<>>, <<>>, <<Complaint(o, "is not a symbolic link")>>, <<"_check">>)
            ELSE IF f.local # "link"
            THEN Did(Bool(FALSE), f, <<>>, <<>>, <<Complaint(o, "does not point to")>>, <<"_check">>)
            ELSE Did(Bool(TRUE), f, <<>>, <<>>, <<>>, <<"_check">>)
        ELSE IF f.local # Marker[o.kind]
        THEN Did(Bool(FALSE), f, <<>>, <<>>, <<Complaint(o, "is not a repository")>>, <<"_check">>)
        ELSE Did(Bool(TRUE), f, <<>>, <<>>, <<>>, <<"_check">>)

\* the exit codes of an external command
ExitCodes == {0, 1}

Command(o, argv, paths, cwd, code) ==
    [key |-> o.key, argv |-> argv, paths |-> paths, cwd |-> cwd, code |-> code]

\* Origin._run over Origin._runp: subprocess.run(command, check=True, ...) raises
\* CalledProcessError on a non-zero exit; otherwise what the command wrote, if
\* anything, is printed under the origin's name
Run(o, f, argv, paths, cwd, code, noisy) ==
    IF code # 0
    THEN Did(Exc("CalledProcessError"), f, <<Command(o, argv, paths, cwd, code)>>, <<>>, <<>>, <<"_run">>)
    ELSE Did(Bool(code = 0), f, <<Command(o, argv, paths, cwd, code)>>,
             IF noisy THEN << o.name \o <<":">>, <<"(captured output)">> >> ELSE <<>>,
             <<>>, <<"_run">>)

\* the clone command of a kind
CloneArgv == [git |-> <<"git", "clone">>, hg |-> <<"hg", "clone">>]
\* the update command of a kind
UpdateArgv == [git |-> <<"git", "pull", "--rebase">>, hg |-> <<"hg", "pull", "-u">>]
\* the status command of a kind
StatusArgv == [git |-> <<"git", "status", "--short">>, hg |-> <<"hg", "status">>]

\* GitOrigin._clone, MercurialOrigin._clone, SymlinkOrigin._clone. A clone command
\* that exits with 0 has made the repository; self.src.symlink_to(self.local)
\* makes a link at the remote's path, and raises if something is there.
CloneIt(o, f, code, noisy) ==
    IF o.kind = "ln" THEN
        IF f.src = "absent"
        THEN Did(None, [f EXCEPT !.src = "linkback"], <<>>, <<>>, <<>>, <<"_clone">>)
        ELSE Did(Exc("FileExistsError"), f, <<>>, <<>>, <<>>, <<"_clone">>)
    ELSE LET r == Run(o, f, CloneArgv[o.kind], <<o.remote, o.local>>, <<>>, code, noisy)
         IN  After(<<"_clone">>,
                   IF code = 0 THEN [r EXCEPT !.fs = [f EXCEPT !.local = Marker[o.kind]]] ELSE r)

\* GitOrigin._update, MercurialOrigin._update, SymlinkOrigin._update
UpdateIt(o, f, code, noisy) ==
    IF o.kind = "ln" THEN Did(None, f, <<>>, <<>>, <<>>, <<"_update">>)
    ELSE After(<<"_update">>, Run(o, f, UpdateArgv[o.kind], <<>>, o.local, code, noisy))

\* GitOrigin._status, MercurialOrigin._status, SymlinkOrigin._status
StatusIt(o, f, code, noisy) ==
    IF o.kind = "ln" THEN Did(Status("UNCHANGED"), f, <<>>, <<>>, <<>>, <<"_status">>)
    ELSE LET r == Run(o, f, StatusArgv[o.kind], <<>>, o.local, code, noisy)
         IN  After(<<"_status">>, IF IsExc(r.ret) THEN r ELSE [r EXCEPT !.ret = Status("UNKNOWN")])

\* the second of two steps, when the first let it happen
Then(first, second) ==
    [ret |-> second.ret, fs |-> second.fs, cmds |-> first.cmds \o second.cmds,
     out |-> first.out \o second.out, err |-> first.err \o second.err,
     trace |-> first.trace \o second.trace]

\* Origin.update
update(o, f, code, noisy) ==
    LET c == Check(o, f)
    IN  After(<<"update">>, IF c.ret = Bool(TRUE) THEN Then(c, UpdateIt(o, c.fs, code, noisy)) ELSE c)

\* Origin.clone
clone(o, f, code, noisy) ==
    LET c == After(<<"check_local_is_available">>, check_local_is_available(o, f))
    IN  After(<<"clone">>, IF c.ret = Bool(TRUE) THEN Then(c, CloneIt(o, c.fs, code, noisy)) ELSE c)

\* Origin.refresh
refresh(o, f, code, noisy) ==
    After(<<"refresh">>, IF Exists(f) THEN update(o, f, code, noisy) ELSE clone(o, f, code, noisy))

\* Origin.status
status(o, f, code, noisy) ==
    LET c == Check(o, f)
    IN  After(<<"status">>,
              IF c.ret = Bool(TRUE) THEN Then(c, StatusIt(o, c.fs, code, noisy))
              ELSE [c EXCEPT !.ret = Status("ERROR")])

\* GitOrigin._bootstrap, MercurialOrigin._bootstrap, SymlinkOrigin._bootstrap
BootstrapLines(o) ==
    LET local == shell_escape(o.local)
    IN  CASE o.kind = "git" ->
               << <<"if test -d ">> \o local,
                  <<"then (cd ">> \o local \o <<" && git pull --rebase)">>,
                  <<"else git clone ">> \o shell_escape(o.remote) \o <<" ">> \o local,
                  <<"fi">> >>
          [] o.kind = "hg" ->
               << <<"if test -d ">> \o local,
                  <<"then (cd ">> \o local \o <<" && hg pull -u)">>,
                  <<"else hg clone ">> \o shell_escape(o.remote) \o <<" ">> \o local,
                  <<"fi">> >>
          [] OTHER ->
               << <<"test -d ">> \o local \o <<" || ln -s ">>
                      \o shell_escape(o.remote) \o <<" ">> \o local >>

\* Origin.bootstrap
bootstrap(o, f) ==
    Did(Bool(TRUE), f, <<>>,
        << <<"mkdir -p ">> \o shell_escape(PathParent(o.local)) >> \o BootstrapLines(o),
        <<>>, <<"bootstrap", "_bootstrap">>)

\* the operations main calls on one package, in the order of lines 525-530
OpsOf(args) ==
    (IF args.bootstrap THEN <<"bootstrap">> ELSE <<>>)
    \o (IF args.refresh THEN <<"refresh">> ELSE <<>>)
    \o (IF args.status THEN <<"status">> ELSE <<>>)

\* a slip: only load = false keeps a package out
OperatedUnlessFalse(args, pkg) == args.all \/ pkg.load # Bool(FALSE)

\* line 524: args.all or package.info.get('load', True)
Operated(args, pkg) == args.all \/ Truthy(pkg.load)

\* the calls of the loop of lines 523-530, as <<package index, operation>>
RECURSIVE CallsFrom(_, _, _)
CallsFrom(args, pkgs, i) ==
    IF i > Len(pkgs) THEN <<>>
    ELSE (IF Operated(args, pkgs[i])
          THEN [n \in 1..Len(OpsOf(args)) |-> <<i, OpsOf(args)[n]>>]
          ELSE <<>>) \o CallsFrom(args, pkgs, i + 1)

Calls == CallsFrom(margs, mpkgs, 1)

NoCall == [key |-> "-", op |-> "-", trace |-> <<>>, pre |-> <<>>, ncmd |-> 0, nout |-> 0, nerr |-> 0]

OriginOff ==
    /\ margs = <<>>
    /\ mpkgs = <<>>
    /\ mpc = 0
    /\ mlog = <<>>
    /\ mstate = "off"
    /\ fs = <<>>
    /\ cmds = <<>>
    /\ out = <<>>
    /\ oerr = <<>>
    /\ ocall = NoCall
    /\ ores = None

\* a file that does not exist, and a file just opened for writing
Missing == [kind |-> "missing", of |-> <<>>]
Empty == [kind |-> "empty", of |-> <<>>]

WriteOff ==
    /\ wlists = <<>>
    /\ wtodo = {}
    /\ wcur = "-"
    /\ wpc = "off"
    /\ wdir = FALSE
    /\ wfiles = <<>>
    /\ wprev = Missing
    /\ wdiag = <<>>

\* the number of sources merged one after the other, as read_toml does
MaxMerges == 2

NdLeaves == { IntV(1), IntV(2), Str(<<"x", "y">>), Bool(TRUE),
              List(<<IntV(1)>>), List(<<IntV(2)>>),
              SetV({10, 11}), SetV({13}), SetV({}) }

NdInnerVals == { IntV(1), Str(<<"t">>), List(<<IntV(1)>>), List(<<IntV(2)>>) }

NdInner == UNION { [D -> NdInnerVals] : D \in SUBSET {"x", "y"} }

NdSources ==
    UNION { [D -> NdLeaves \cup { Map(f) : f \in NdInner }] : D \in SUBSET {"a"} }
    \cup { [a |-> va, b |-> vb] : va \in { Map(f) : f \in NdInner },
                                  vb \in { IntV(1), Str(<<"t">>) } }

NdOff ==
    /\ ndD = EmptyMap
    /\ ndPrev = EmptyMap
    /\ ndSrc = EmptyMap
    /\ ndErr = <<>>
    /\ ndN = 0
    /\ ndDef = NoDef

ExpandOff ==
    /\ escope = <<>>
    /\ ekey = "-"
    /\ eres = None

MergeInit == NdOff /\ ExpandOff /\ LoadOff /\ OriginOff /\ WriteOff

\* ndupdate(data, a) of read_toml, for the next source a
Merge(s) ==
    /\ ndN < MaxMerges
    /\ ndErr = <<>>
    /\ ndDef = NoDef
    /\ LET r == NdUpdate(ndD, s)
       IN  /\ ndD' = r.d
           /\ ndErr' = r.err
    /\ ndPrev' = ndD
    /\ ndSrc' = s
    /\ ndN' = ndN + 1
    /\ UNCHANGED <<ndDef, evars, lvars, ovars, wvars>>

\* the names and the values given with -D
DefineNames == { <<"a">>, <<"b">>, <<"a", "x">> }

DefineValues == { <<"t">>, <<"x", "\"">>, <<"\\", "\t">>, <<"x", "DEL">> }

\* main, for one -D NAME VALUE: the definition is read as one more input,
\* after the files
Define(name, value) ==
    /\ ndErr = <<>>
    /\ ndDef = NoDef
    /\ ndDef' = [name |-> name, value |-> value]
    /\ LET parsed == BasicString(toml_escape(value) \o <<"\"">>, 1, <<>>)
           r == NdUpdate(ndD, DottedTable(name, parsed))
       IN  IF IsExc(parsed)
           THEN /\ ndErr' = <<parsed.v>>
                /\ UNCHANGED <<ndD, ndPrev, ndSrc, ndN>>
           ELSE /\ ndD' = r.d
                /\ ndErr' = r.err
                /\ ndPrev' = ndD
                /\ ndSrc' = DottedTable(name, parsed)
                /\ ndN' = ndN + 1
    /\ UNCHANGED <<evars, lvars, ovars, wvars>>

MergeNext ==
    \/ \E s \in NdSources : Merge(s)
    \/ \E name \in DefineNames, value \in DefineValues : Define(name, value)

SpecMerge == MergeInit /\ [][MergeNext]_vars

---------------------------------------------------------------------------
(* Inputs of the Expander specification *)

ValsA == { Str(<<"A">>), IntV(3), Bool(TRUE), List(<<Str(<<"x">>), IntV(1)>>),
           Str(<<"{", "a", "}">>), Str(<<"{", "b", "}">>),
           Str(<<"{", "{", "A", "}", "}">>), Str(<<"A", "}">>), Str(<<"{", "A">>) }
ValsB == { Str(<<"{", "a", "}", "-", "{", "a", "}">>), Str(<<"{", "a", "}">>),
           Str(<<"{", "z", "z", "}">>), Str(<<"-">>), Str(<<"{", "c", "}">>), IntV(12) }
ValsC == { Str(<<"{", "b", "}", "=", "{", "b", "}">>), Str(<<"{", "b", "}", "{", "a", "}">>),
           Str(<<"{", "a", "}", "{", "z", "z", "}">>), Str(<<"=">>) }

Scopes ==
    { <<[a |-> va, b |-> vb, c |-> vc]>> : va \in ValsA, vb \in ValsB, vc \in ValsC }
    \cup { <<[a |-> va, c |-> vc]>> : va \in ValsA, vc \in ValsC }

Defaults == { None, IntV(9) }

ExpandInit ==
    /\ WriteOff
    /\ escope \in Scopes
    /\ ekey = "-"
    /\ eres = None
    /\ NdOff
    /\ LoadOff
    /\ OriginOff

\* e.get(key, default)
ExpanderGet(key, default) ==
    /\ ekey' = key
    /\ eres' = Get(escope, key, default)
    /\ UNCHANGED <<escope, ndvars, lvars, ovars, wvars>>

ExpandNext == \E key \in ExpandKeys, default \in Defaults : ExpanderGet(key, default)

SpecExpand == ExpandInit /\ [][ExpandNext]_vars

---------------------------------------------------------------------------
(* Inputs of the loader specification *)

SGit == Str(<<"g", "i", "t">>)
SOne == Str(<<"o", "n", "e">>)
STwo == Str(<<"t", "w", "o">>)
SRepoGit == Str(<<"r", ".", "g", "i", "t">>)

\* a package table entry: the fields that are not Absent
Props(rec) == [key \in { f \in DOMAIN rec : rec[f] # Absent } |-> rec[key]]

BaseEntry ==
    [name |-> Absent, template |-> Absent, load |-> Absent, dst |-> Str(<<"/", "d">>),
     src |-> SRepoGit, vcs |-> SGit, v |-> Absent, package |-> Absent, env |-> Absent]

SrcVals == { Absent, SRepoGit, Str(<<"r">>), IntV(1) }
VcsVals == { Absent, SGit, Str(<<"h", "g">>), Str(<<"l", "n">>), Str(<<"w", "t", "f">>), IntV(1) }
LoadVals == { Absent, Bool(TRUE), Bool(FALSE), SOne, List(<<SOne, STwo>>), IntV(1),
              Str(<<"{", "v", "}">>) }
DstVals == { Absent, Str(<<"/", "d", "/">>), Str(<<>>),
             Str(<<"{", "C", "O", "N", "F", "I", "G", "_", "H", "O", "M", "E", "}", "/",
                   "{", "n", "a", "m", "e", "}">>) }
NameVals == { Absent, Str(<<"n">>), Str(<<"{", "k", "e", "y", "}", "-", "n">>) }
TemplateRefs == { Absent, Str(<<"t">>), Str(<<"z", "z">>) }

\* entries that vary the fields the loader itself reads
EntriesFields ==
    { [BaseEntry EXCEPT !.src = s, !.vcs = c] : s \in SrcVals, c \in VcsVals }
    \cup { [BaseEntry EXCEPT !.load = l, !.template = r] : l \in LoadVals, r \in {Absent, Str(<<"t">>)} }
    \cup { [BaseEntry EXCEPT !.dst = d, !.name = n, !.vcs = c] :
               d \in DstVals, n \in NameVals, c \in {Absent, Str(<<"l", "n">>)} }

\* entries that vary which layers hold a key
EntriesLayers ==
    { [BaseEntry EXCEPT !.v = x, !.template = r, !.package = y, !.env = z] :
          x \in {Absent, Str(<<"P">>)}, r \in TemplateRefs,
          y \in {Absent, Str(<<"x">>)}, z \in {Absent, Str(<<"y">>)} }

EntriesB ==
    { BaseEntry,
      [BaseEntry EXCEPT !.src = Absent],
      [BaseEntry EXCEPT !.vcs = Str(<<"h", "g">>), !.load = Bool(FALSE), !.dst = Absent],
      [BaseEntry EXCEPT !.load = IntV(1)],
      [BaseEntry EXCEPT !.vcs = Str(<<"w", "t", "f">>), !.load = SOne] }

\* the [list] table: for each variant the global keys and items and the
\* package keys and items
ListTable ==
    [one |-> [gkeys |-> <<>>, gitems |-> <<>>, pkeys |-> <<>>,
              pitems |-> << <<"{", "k", "e", "y", "}", "=", "{", "n", "a", "m", "e", "}">> >>],
     two |-> [gkeys |-> <<"CONFIG_HOME">>, gitems |-> << <<"-", "{", "v", "}">> >>,
              pkeys |-> <<"key", "v">>, pitems |-> <<>>]]

RichTemplate == [t |-> [v |-> Str(<<"T">>), load |-> STwo, global |-> Str(<<"u">>)]]
RichGlobal == [v |-> Str(<<"G">>), env |-> Str(<<"g">>), CONFIG_HOME |-> Str(<<"/", "m">>)]
RichEnv == [XDG_CONFIG_HOME |-> Str(<<"/", "c">>), v |-> Str(<<"E">>)]

TemplateTables == { [t |-> EmptyMap], [t |-> [v |-> Str(<<"T">>)]], RichTemplate }

GlobalTables == { EmptyMap, [v |-> Str(<<"G">>)], RichGlobal }

Environments == { [XDG_CONFIG_HOME |-> Str(<<"/", "c">>)], RichEnv }

\* entries and templates that both hold v, as sequences or as mappings
EntriesBoth ==
    { [BaseEntry EXCEPT !.v = x, !.template = Str(<<"t">>)] :
          x \in { List(<<IntV(1)>>), Map([x |-> IntV(1)]) } }

TemplatesBoth ==
    { [t |-> [v |-> x]] : x \in { List(<<IntV(2)>>), Map([y |-> IntV(2)]), Str(<<"T">>) } }

\* the trees read_inputs is run on: <<entry a, entry b, templates, global, environment>>
LoadInputs ==
    (EntriesFields \X EntriesB \X {RichTemplate} \X {RichGlobal} \X {RichEnv})
    \cup (EntriesLayers \X EntriesB \X TemplateTables \X GlobalTables \X Environments)
    \cup (EntriesBoth \X {BaseEntry} \X TemplatesBoth \X {RichGlobal} \X {RichEnv})

Manifest == <<"a", "b">>

LoadInit ==
    /\ WriteOff
    /\ ExpandOff
    /\ NdOff
    /\ OriginOff
    /\ \E i \in LoadInputs :
          /\ input = [order |-> Manifest,
                      package |-> [a |-> Props(i[1]), b |-> Props(i[2])],
                      template |-> i[3], global |-> i[4], env |-> i[5],
                      list |-> ListTable]
          /\ config = [package |-> [a |-> Props(i[1]), b |-> Props(i[2])], global |-> i[4]]
    /\ packages = <<>>
    /\ loaded = <<>>
    /\ errs = <<>>
    /\ lpc = 0
    /\ lstate = "start"
    /\ look = NoLook
    /\ lout = NoList

\* lines 332-340: the global table gets the four directories
LoadGlobals ==
    /\ lstate = "start"
    /\ config' = [config EXCEPT !.global = WithXdg(config.global, input.env)]
    /\ lstate' = "packages"
    /\ UNCHANGED <<input, packages, loaded, errs, lpc, look, lout, evars, ndvars, ovars, wvars>>

\* lines 342-391: the next entry of the package table
LoadPackage ==
    /\ lstate = "packages"
    /\ lpc < Len(input.order)
    /\ LET key == input.order[lpc + 1]
           r == LoadOne(key, config.package[key], input.template, config.global, input.env)
       IN  /\ config' = [config EXCEPT !.package[key] = r.props]
           /\ errs' = errs \o r.diag
           /\ IF r.outcome = "raised"
              THEN /\ lstate' = r.exc
                   /\ UNCHANGED <<packages, loaded, lpc>>
              ELSE /\ lpc' = lpc + 1
                   /\ lstate' = lstate
                   /\ IF r.outcome = "loaded"
                      THEN /\ packages' = Put(packages, key,
                                              [name |-> r.origin[1].name, origin |-> r.origin[1]])
                           /\ loaded' = Append(loaded, key)
                      ELSE UNCHANGED <<packages, loaded>>
    /\ UNCHANGED <<input, look, lout, evars, ndvars, ovars, wvars>>

\* line 393: return packages, gcm, config
LoadReturn ==
    /\ lstate = "packages"
    /\ lpc = Len(input.order)
    /\ lstate' = "done"
    /\ UNCHANGED <<input, config, packages, loaded, errs, lpc, look, lout, evars, ndvars, ovars, wvars>>

LookKeys == {"v", "env", "package", "global", "dst", "load", "CONFIG_HOME"}

\* package.info.get(key) on a returned package
InfoGet(pkg, key) ==
    /\ lstate = "done"
    /\ pkg \in DOMAIN packages
    /\ look' = [pkg |-> pkg, key |-> key, res |-> Get(InfoScope(pkg), key, None)]
    /\ UNCHANGED <<input, config, packages, loaded, errs, lpc, lstate, lout, evars, ndvars, ovars, wvars>>

\* build_list(variant, packages, Expander(gcm), config) on what was returned
BuildList(variant) ==
    /\ lstate = "done"
    /\ lout' = [variant |-> variant,
                res |-> build_list(variant, loaded, input.list, config.global, input.env)]
    /\ UNCHANGED <<input, config, packages, loaded, errs, lpc, lstate, look, evars, ndvars, ovars, wvars>>

LoadNext ==
    \/ LoadGlobals
    \/ LoadPackage
    \/ LoadReturn
    \/ \E pkg \in {"a", "b"}, key \in LookKeys : InfoGet(pkg, key)
    \/ \E variant \in DOMAIN VariantChars : BuildList(variant)

SpecLoad == LoadInit /\ [][LoadNext]_vars

---------------------------------------------------------------------------
(* Inputs of the operations specification *)

PlainLocal == <<"/", "p", "/", "a">>
QuotedLocal == <<"/", "p", "\"", "/", "a", "\\">>
OtherLocal == <<"/", "q", "/", "b">>
PlainRemote == <<"r", ".", "g", "i", "t">>
QuotedRemote == <<"u", "\\", "\"">>

\* the flags, without --package
Flags == { [all |-> a, bootstrap |-> b, refresh |-> r, status |-> s, package |-> <<>>] :
               a \in BOOLEAN, b \in BOOLEAN, r \in BOOLEAN, s \in BOOLEAN }

\* the keys given with --package, in the order given
Selections == { <<"a">>, <<"b">>, <<"a", "b">>, <<"b", "a">>, <<"zz", "b">>, <<"b", "a", "b">> }

\* what can be at the local path, its parent and the remote's path, for a kind
FsStates(kind) ==
    { [local |-> "absent", parent |-> p, src |-> s] :
          p \in {"dir", "absent", "blocked"},
          s \in IF kind = "ln" THEN {"absent", "dir"} ELSE {"absent"} }
    \cup { [local |-> l, parent |-> "dir", src |-> s] :
          l \in IF kind = "ln" THEN {"file", "dir", "linkx"} ELSE LocalStates \ {"absent", "link"},
          s \in IF kind = "ln" THEN {"absent", "dir"} ELSE {"absent"} }
    \cup { [local |-> "link", parent |-> "dir", src |-> "dir"] }

PackageA(kind, local, remote, load) ==
    [key |-> "a", kind |-> kind, name |-> <<"a">>, remote |-> remote, local |-> local,
     load |-> load]

PackageB(load) ==
    [key |-> "b", kind |-> "git", name |-> <<"b">>, remote |-> PlainRemote,
     local |-> OtherLocal, load |-> load]

LoadTruths == { Bool(TRUE), Bool(FALSE), List(<<SOne>>), List(<<>>) }

\* the runs of main: <<flags, package a, its files, package b, its files>>
MainInputs ==
    { <<g, PackageA(kind, PlainLocal, PlainRemote, Bool(TRUE)), f, PackageB(Bool(TRUE)), fb>> :
          g \in { x \in Flags : ~x.all }, kind \in OriginKinds,
          f \in UNION { FsStates(k) : k \in OriginKinds },
          fb \in { [local |-> "absent", parent |-> "dir", src |-> "absent"],
                   [local |-> "gitrepo", parent |-> "dir", src |-> "absent"] } }
    \cup { <<g, PackageA(kind, local, remote, la), [local |-> "absent", parent |-> "absent", src |-> "absent"],
             PackageB(lb), [local |-> "absent", parent |-> "dir", src |-> "absent"]>> :
          g \in { x \in Flags : x.bootstrap /\ ~x.refresh }, kind \in OriginKinds,
          local \in {PlainLocal, QuotedLocal}, remote \in {PlainRemote, QuotedRemote},
          la \in LoadTruths, lb \in {Bool(TRUE), Bool(FALSE)} }
    \cup { <<[g EXCEPT !.package = sel], PackageA(kind, PlainLocal, PlainRemote, la),
             [local |-> "absent", parent |-> "dir", src |-> "absent"],
             PackageB(Bool(TRUE)), [local |-> "gitrepo", parent |-> "dir", src |-> "absent"]>> :
          g \in { x \in Flags : x.bootstrap \/ x.refresh \/ x.status }, sel \in Selections,
          kind \in {"git", "ln"}, la \in {Bool(TRUE), Bool(FALSE)} }

MainInit ==
    /\ WriteOff
    /\ ExpandOff
    /\ NdOff
    /\ LoadOff
    /\ \E i \in MainInputs :
          /\ margs = i[1]
          /\ mpkgs = <<i[2], i[4]>>
          /\ fs = [a |-> i[3], b |-> i[5]]
    /\ mpc = 0
    /\ mlog = <<>>
    /\ mstate = "select"
    /\ cmds = <<>>
    /\ out = <<>>
    /\ oerr = <<>>
    /\ ocall = NoCall
    /\ ores = None

\* the packages of pkgs named in keys, in the order of their first naming
RECURSIVE SelectFrom(_, _, _)
SelectFrom(pkgs, keys, seen) ==
    IF keys = <<>> THEN <<>>
    ELSE (IF Head(keys) \in seen THEN <<>>
          ELSE SelectSeq(pkgs, LAMBDA x : x.key = Head(keys)))
         \o SelectFrom(pkgs, Tail(keys), seen \cup {Head(keys)})

\* the keys of keys that name no package of pkgs, one diagnostic for each naming
NotConfigured(pkgs, keys) ==
    LET bad == SelectSeq(keys, LAMBDA k : \A i \in 1..Len(pkgs) : pkgs[i].key # k)
    IN  [i \in 1..Len(bad) |-> [key |-> bad[i], what |-> "not a configured package"]]

\* lines 514-521: the packages named with --package, if any were
Select ==
    /\ mstate = "select"
    /\ IF margs.package # <<>>
       THEN /\ mpkgs' = SelectFrom(mpkgs, margs.package, {})
            /\ oerr' = oerr \o NotConfigured(mpkgs, margs.package)
       ELSE UNCHANGED <<mpkgs, oerr>>
    /\ mstate' = "ops"
    /\ UNCHANGED <<margs, mpc, mlog, fs, cmds, out, ocall, ores, evars, ndvars, lvars, wvars>>

\* what the operation op does to origin o, with files f
Perform(op, o, f, code, noisy) ==
    CASE op = "bootstrap" -> bootstrap(o, f)
      [] op = "refresh"   -> refresh(o, f, code, noisy)
      [] OTHER            -> status(o, f, code, noisy)

\* the next call of lines 525-530, when it is op; an exception ends main
MainCall(op) ==
    /\ mstate = "ops"
    /\ mpc < Len(Calls)
    /\ Calls[mpc + 1][2] = op
    /\ LET o == mpkgs[Calls[mpc + 1][1]]
       IN  \E code \in ExitCodes, noisy \in BOOLEAN :
              LET r == Perform(op, o, fs[o.key], code, noisy)
              IN  /\ fs' = [fs EXCEPT ![o.key] = r.fs]
                  /\ cmds' = cmds \o r.cmds
                  /\ out' = out \o r.out
                  /\ oerr' = oerr \o r.err
                  /\ ores' = r.ret
                  /\ mlog' = Append(mlog, <<o.key, op>>)
                  /\ ocall' = [key |-> o.key, op |-> op, trace |-> r.trace, pre |-> fs,
                               ncmd |-> Len(cmds), nout |-> Len(out), nerr |-> Len(oerr)]
                  /\ IF IsExc(r.ret)
                     THEN mstate' = "raised" /\ mpc' = mpc
                     ELSE mstate' = mstate /\ mpc' = mpc + 1
    /\ UNCHANGED <<margs, mpkgs, evars, ndvars, lvars, wvars>>

\* line 526: package.origin.bootstrap()
Bootstrap == MainCall("bootstrap")

\* line 528: package.origin.refresh()
Refresh == MainCall("refresh")

\* line 530: package.origin.status()
GetStatus == MainCall("status")

\* line 558: return 0
MainReturn ==
    /\ mstate = "ops"
    /\ mpc = Len(Calls)
    /\ mstate' = "done"
    /\ UNCHANGED <<margs, mpkgs, mpc, mlog, fs, cmds, out, oerr, ocall, ores, evars, ndvars, lvars, wvars>>

\* the exit status of the process: main's return value, or 1 for a traceback
ExitStatus == IF mstate = "done" THEN 0 ELSE IF mstate = "raised" THEN 1 ELSE -1

MainNext ==
    \/ Select
    \/ Bootstrap
    \/ Refresh
    \/ GetStatus
    \/ MainReturn

SpecMain == MainInit /\ [][MainNext]_vars

---------------------------------------------------------------------------
(* One origin, its methods called one after the other *)

\* the number of calls made on the origin
MaxCalls == 2

\* the origins and what is on the filesystem: <<origin, its files>>
OriginInputs ==
    { <<PackageA(kind, PlainLocal, PlainRemote, Bool(TRUE)), f>> :
          kind \in OriginKinds, f \in UNION { FsStates(k) : k \in OriginKinds } }

OriginInit ==
    /\ WriteOff
    /\ ExpandOff
    /\ NdOff
    /\ LoadOff
    /\ \E i \in OriginInputs :
          /\ mpkgs = <<i[1]>>
          /\ fs = [a |-> i[2]]
    /\ margs = <<>>
    /\ mpc = 0
    /\ mlog = <<>>
    /\ mstate = "origin"
    /\ cmds = <<>>
    /\ out = <<>>
    /\ oerr = <<>>
    /\ ocall = NoCall
    /\ ores = None

\* what the method op of origin o does, with files f
Invoke(op, o, f, code, noisy) ==
    CASE op = "update"  -> update(o, f, code, noisy)
      [] op = "clone"   -> clone(o, f, code, noisy)
      [] op = "refresh" -> refresh(o, f, code, noisy)
      [] OTHER          -> status(o, f, code, noisy)

\* one call of a method of the origin; an exception ends the run
OriginCall(op) ==
    /\ mstate = "origin"
    /\ mpc < MaxCalls
    /\ LET o == mpkgs[1]
       IN  \E code \in ExitCodes, noisy \in BOOLEAN :
              LET r == Invoke(op, o, fs[o.key], code, noisy)
              IN  /\ fs' = [fs EXCEPT ![o.key] = r.fs]
                  /\ cmds' = cmds \o r.cmds
                  /\ out' = out \o r.out
                  /\ oerr' = oerr \o r.err
                  /\ ores' = r.ret
                  /\ mlog' = Append(mlog, <<o.key, op>>)
                  /\ ocall' = [key |-> o.key, op |-> op, trace |-> r.trace, pre |-> fs,
                               ncmd |-> Len(cmds), nout |-> Len(out), nerr |-> Len(oerr)]
                  /\ mstate' = IF IsExc(r.ret) THEN "raised" ELSE mstate
    /\ mpc' = mpc + 1
    /\ UNCHANGED <<margs, mpkgs, evars, ndvars, lvars, wvars>>

\* origin.update()
CallUpdate == OriginCall("update")

\* origin.clone()
CallClone == OriginCall("clone")

\* origin.refresh()
CallRefresh == OriginCall("refresh")

\* origin.status()
CallStatus == OriginCall("status")

OriginNext ==
    \/ CallUpdate
    \/ CallClone
    \/ CallRefresh
    \/ CallStatus

SpecOrigin == OriginInit /\ [][OriginNext]_vars

---------------------------------------------------------------------------
(* Writing the list files *)

\* PurePath.suffix of a file name: from its last dot, unless that dot is the
\* first or the last character
Suffix(name) ==
    LET dots == { i \in 1..Len(name) : name[i] = "." }
        last == CHOOSE i \in dots : \A j \in dots : j <= i
    IN  IF dots # {} /\ 1 < last /\ last < Len(name) THEN SubSeq(name, last, Len(name)) ELSE <<>>

\* PurePath.with_suffix
WithSuffix(name, suffix) == SubSeq(name, 1, Len(name) - Len(Suffix(name))) \o suffix

\* line 551: filename.with_suffix('.bak')
BakOf(name) == WithSuffix(name, <<".", "b", "a", "k">>)

\* the file names configured for lists
ListNames == { <<"l">>, <<"l", ".", "t">>, <<"l", ".", "v">>, <<"l", ".", "b", "a", "k">> }

NoFile == <<>>

\* the files of the directory
AllNames == ListNames \cup { BakOf(name) : name \in ListNames }

\* what a file found before the run holds, and what is written for a variant
Previous(name) == [kind |-> "previous", of |-> name]
ListText(variant) == [kind |-> "list", of |-> VariantChars[variant]]

\* the list tables: a file name, or none, for each variant
ListTables ==
    UNION { [D -> ListNames \cup {NoFile}] : D \in {{"one"}, {"one", "two"}} }

\* the file of the variant being written
File == wlists[wcur]

WriteInit ==
    /\ ExpandOff
    /\ NdOff
    /\ LoadOff
    /\ OriginOff
    /\ wlists \in ListTables
    /\ wtodo \in SUBSET DOMAIN wlists
    /\ wcur = "-"
    /\ wpc = "loop"
    /\ wdir \in BOOLEAN
    /\ wfiles \in { [name \in AllNames |-> IF name \in S THEN Previous(name) ELSE Missing] :
                        S \in IF wdir THEN SUBSET AllNames ELSE {{}} }
    /\ wprev = Missing
    /\ wdiag = <<>>

\* lines 542-550: the next variant, in the order the set gives them; without
\* a file it is reported and skipped, otherwise the directory is made and the
\* file looked for
NextVariant ==
    /\ wpc = "loop"
    /\ \E v \in wtodo :
          /\ wtodo' = wtodo \ {v}
          /\ IF wlists[v] = NoFile
             THEN /\ wdiag' = Append(wdiag, v)
                  /\ UNCHANGED <<wcur, wpc, wdir, wprev>>
             ELSE /\ wcur' = v
                  /\ wdir' = TRUE
                  /\ wprev' = wfiles[wlists[v]]
                  /\ wpc' = IF wfiles[wlists[v]] # Missing THEN "backup" ELSE "open"
                  /\ UNCHANGED wdiag
    /\ UNCHANGED <<wlists, wfiles, evars, ndvars, lvars, ovars>>

\* lines 551-553: b = filename.with_suffix('.bak'); if b.exists(): b.unlink()
Unlink ==
    /\ wpc = "backup"
    /\ wfiles' = [wfiles EXCEPT ![BakOf(File)] = Missing]
    /\ wpc' = "rename"
    /\ UNCHANGED <<wlists, wtodo, wcur, wdir, wprev, wdiag, evars, ndvars, lvars, ovars>>

\* line 554: filename.rename(b), FileNotFoundError without the file
Rename ==
    /\ wpc = "rename"
    /\ IF wfiles[File] = Missing
       THEN wpc' = "raised" /\ UNCHANGED wfiles
       ELSE /\ wfiles' = [wfiles EXCEPT ![File] = Missing, ![BakOf(File)] = wfiles[File]]
            /\ wpc' = "open"
    /\ UNCHANGED <<wlists, wtodo, wcur, wdir, wprev, wdiag, evars, ndvars, lvars, ovars>>

\* line 555: open(filename, 'w', encoding='utf-8')
Open ==
    /\ wpc = "open"
    /\ wfiles' = [wfiles EXCEPT ![File] = Empty]
    /\ wpc' = "write"
    /\ UNCHANGED <<wlists, wtodo, wcur, wdir, wprev, wdiag, evars, ndvars, lvars, ovars>>

\* line 556: f.write(build_list(v, packages, ginfo, config))
Write ==
    /\ wpc = "write"
    /\ wfiles' = [wfiles EXCEPT ![File] = ListText(wcur)]
    /\ wpc' = "loop"
    /\ UNCHANGED <<wlists, wtodo, wcur, wdir, wprev, wdiag, evars, ndvars, lvars, ovars>>

\* line 558: return 0
WriteReturn ==
    /\ wpc = "loop"
    /\ wtodo = {}
    /\ wpc' = "done"
    /\ UNCHANGED <<wlists, wtodo, wcur, wdir, wfiles, wprev, wdiag, evars, ndvars, lvars, ovars>>

WriteNext ==
    \/ NextVariant
    \/ Unlink
    \/ Rename
    \/ Open
    \/ Write
    \/ WriteReturn

SpecWrite == WriteInit /\ [][WriteNext]_vars

---------------------------------------------------------------------------
(* Placeholder substitution, stated on templates rather than on characters *)

\* the longest template, in tokens, that the statements below tell apart
MaxTokens == 3

LitChars == {"A", "-", "="}

TokenSet == { [t |-> "lit", x |-> ch] : ch \in LitChars }
            \cup { [t |-> "ref", x |-> key] : key \in ExpandKeys }

TokenSeqs == UNION { [1..n -> TokenSet] : n \in 0..MaxTokens }

RECURSIVE Render(_)
Render(toks) ==
    IF toks = <<>> THEN <<>>
    ELSE (IF toks[1].t = "lit" THEN <<toks[1].x>>
          ELSE <<"{">> \o KeyChars[toks[1].x] \o <<"}">>) \o Render(Tail(toks))

Rendered == [toks \in TokenSeqs |-> Render(toks)]

\* s is literal text and {identifier} placeholders, nothing else
IsTemplate(s) == \E toks \in TokenSeqs : Rendered[toks] = s

TokensOf(s) == CHOOSE toks \in TokenSeqs : Rendered[toks] = s

RefsOf(toks) == { toks[i].x : i \in { n \in 1..Len(toks) : toks[n].t = "ref" } }

\* from key on: every string is a template, no placeholder chain returns to a key
\* it came from; with strict, every placeholder also names a key of the scope
RECURSIVE Sound(_, _, _, _)
Sound(sc, key, seen, strict) ==
    /\ key \notin seen
    /\ IF ~ChainHas(sc, key) THEN ~strict
       ELSE LET raw == ChainGet(sc, key)
            IN  raw.k = "str" =>
                    /\ IsTemplate(raw.v)
                    /\ \A r \in RefsOf(TokensOf(raw.v)) : Sound(sc, r, seen \cup {key}, strict)

\* the text a placeholder for key stands for
RECURSIVE LookupText(_, _)
RECURSIVE SubstTokens(_, _)
SubstTokens(sc, toks) ==
    IF toks = <<>> THEN <<>>
    ELSE (IF toks[1].t = "lit" THEN <<toks[1].x>> ELSE LookupText(sc, toks[1].x))
         \o SubstTokens(sc, Tail(toks))
LookupText(sc, key) ==
    IF ~ChainHas(sc, key) THEN ToStr(None)
    ELSE LET raw == ChainGet(sc, key)
         IN  IF raw.k = "str" THEN SubstTokens(sc, TokensOf(raw.v)) ELSE ToStr(raw)

Asked == ekey \in ExpandKeys /\ ChainHas(escope, ekey)

\* C1 (as stated): in a scope without placeholder cycles, get(key) of a string
\* value is that string with every {identifier} placeholder replaced by what the
\* lookup of identifier gives, transitively; a non-string value comes back as is.
C1_AsStated ==
    Asked =>
        LET raw == ChainGet(escope, ekey)
        IN  /\ (raw.k = "str" /\ Sound(escope, ekey, {}, FALSE))
                    => eres = Str(LookupText(escope, ekey))
            /\ raw.k # "str" => eres = raw

\* C1 (amended): the same, for strings whose placeholders all name keys of the
\* scope, transitively; a non-string value comes back as is.
C1_Expansion ==
    Asked =>
        LET raw == ChainGet(escope, ekey)
        IN  /\ (raw.k = "str" /\ Sound(escope, ekey, {}, TRUE))
                    => eres = Str(LookupText(escope, ekey))
            /\ raw.k # "str" => eres = raw

\* the spec's example: a='A', b='{a}-{a}', c='{b}={b}', get('c') = 'A-A=A-A'
C1_Witness ==
    /\ ekey = "c"
    /\ escope = <<[a |-> Str(<<"A">>),
                   b |-> Str(<<"{", "a", "}", "-", "{", "a", "}">>),
                   c |-> Str(<<"{", "b", "}", "=", "{", "b", "}">>)]>>
    /\ eres = Str(<<"A", "-", "A", "=", "A", "-", "A">>)

---------------------------------------------------------------------------
(* Deep merge, stated as a relation between d before, s, and d after *)

RECURSIVE MergedMap(_, _, _)
MergedValue(dv, sv, rv) ==
    CASE dv.k = "map" /\ sv.k = "map"   -> rv.k = "map" /\ MergedMap(dv.v, sv.v, rv.v)
      [] dv.k = "list" /\ sv.k = "list" -> rv = List(dv.v \o sv.v)
      [] dv.k = "set" /\ sv.k = "set"   -> rv = SetV(dv.v \cup sv.v)
      [] dv.k = sv.k                    -> rv = sv
      [] OTHER                          -> TRUE
MergedMap(d, s, r) ==
    /\ DOMAIN r = DOMAIN d \cup DOMAIN s
    /\ \A key \in DOMAIN r :
          IF key \in DOMAIN d /\ key \in DOMAIN s THEN MergedValue(d[key], s[key], r[key])
          ELSE IF key \in DOMAIN s THEN r[key] = s[key]
          ELSE r[key] = d[key]

\* C3: after ndupdate(d, s), a key of both holds the recursive merge (two
\* mappings), d's sequence followed by s's (two sequences), the union (two sets),
\* s's value (two scalars of one type); a key only in s is inserted, a key only
\* in d is kept.
C3_Merge == (ndN > 0 /\ ndErr = <<>>) => MergedMap(ndPrev, ndSrc, ndD)

\* merging {a:{x:[1]}} then {a:{x:[2]}} into {} yields {a:{x:[1,2]}}
C3_Witness ==
    /\ ndN = 2
    /\ ndErr = <<>>
    /\ ndPrev = [a |-> Map([x |-> List(<<IntV(1)>>)])]
    /\ ndSrc = [a |-> Map([x |-> List(<<IntV(2)>>)])]
    /\ ndD = [a |-> Map([x |-> List(<<IntV(1), IntV(2)>>)])]

\* the pairs of d and s, at any depth, that are neither two mappings, two
\* sequences, two sets nor two values of one type
RECURSIVE Conflicts(_, _)
Conflicts(d, s) ==
    UNION { IF d[key].k # s[key].k THEN {<<key, d[key], s[key]>>}
            ELSE IF d[key].k = "map" THEN Conflicts(d[key].v, s[key].v)
            ELSE {} : key \in DOMAIN d \cap DOMAIN s }

\* C4: when d and s hold such a pair, ndupdate fails with an error that names
\* the key and the two values; it never combines or overwrites them.
C4_MergeConflict ==
    (ndN > 0 /\ Conflicts(ndPrev, ndSrc) # {}) => ndErr \in Conflicts(ndPrev, ndSrc)

---------------------------------------------------------------------------
(* The loader's results, stated on the tree as it was read *)

\* the four layers of a package, most specific first
Layers(pkg) ==
    << config.package[pkg], TemplateOf(config.package[pkg], input.template),
       config.global, input.env >>

\* the raw value of the first of the layers that holds key
FirstOf(layers, key) ==
    IF key \in DOMAIN layers[1] THEN layers[1][key]
    ELSE IF key \in DOMAIN layers[2] THEN layers[2][key]
    ELSE IF key \in DOMAIN layers[3] THEN layers[3][key]
    ELSE layers[4][key]

\* what a read gives for a raw value: a string is expanded, anything else is as is
ReadOf(pkg, raw) ==
    IF raw.k # "str" THEN raw
    ELSE LET e == Expand(InfoScope(pkg), raw.v)
         IN  IF e = Exc("KeyError") THEN None ELSE e

Looked == look.pkg # "-"

\* C2 (as stated): for every package and every key, a read through the package's
\* scope gives the value of the first layer, in the order package properties,
\* template, global table, environment, that holds the key.
C2_AsStated ==
    Looked =>
        (ChainHas(Layers(look.pkg), look.key)
            => look.res = ReadOf(look.pkg, FirstOf(Layers(look.pkg), look.key)))

ReservedKeys == {"package", "global", "env"}

\* C2 (amended): the same for every key but package, global and env; package
\* reads as the package's own properties, and global and env read as the global
\* table and the environment unless the properties or the template hold the key.
C2_Layering ==
    Looked =>
        LET layers == Layers(look.pkg)
        IN  /\ (look.key \notin ReservedKeys /\ ChainHas(layers, look.key))
                  => look.res = ReadOf(look.pkg, FirstOf(layers, look.key))
            /\ look.key = "package" => look.res = Map(layers[1])
            /\ look.key \in {"global", "env"} =>
                  look.res = IF ChainHas(<<layers[1], layers[2]>>, look.key)
                             THEN ReadOf(look.pkg, FirstOf(layers, look.key))
                             ELSE IF look.key = "global" THEN Map(layers[3])
                             ELSE Map(layers[4])

\* the global table's value is read when neither the properties nor the template
\* hold the key, although the environment holds it too
C2_Witness ==
    /\ Looked
    /\ look.key = "v"
    /\ "v" \notin DOMAIN Layers(look.pkg)[1]
    /\ "v" \notin DOMAIN Layers(look.pkg)[2]
    /\ "v" \in DOMAIN Layers(look.pkg)[3]
    /\ "v" \in DOMAIN Layers(look.pkg)[4]
    /\ look.res = Str(<<"G">>)

\* what a field of a manifest entry resolves to, on the tree as read
Resolved(key, field) ==
    Get(PackageScope(input.package[key], TemplateOf(input.package[key], input.template),
                     input.global, input.env), field, None)

IsRegistered(x) == x.k = "str" /\ \E kind \in OriginKinds : VcsNames[kind] = x.v

DiagnosticsFor(key) == Cardinality({ i \in 1..Len(errs) : errs[i].pkg = key })

ManifestKeys == { input.order[i] : i \in 1..Len(input.order) }

\* C5 (as stated): read_inputs returns a package for key iff src resolves to a
\* string and vcs resolves to a registered kind or is absent with src ending in
\* .git; any other entry is dropped with one diagnostic, the others still load.
C5_AsStated ==
    lstate = "done" =>
        \A key \in ManifestKeys :
            LET src == Resolved(key, "src")
                vcs == Resolved(key, "vcs")
            IN  /\ key \in DOMAIN packages <=>
                      /\ src.k = "str"
                      /\ \/ IsRegistered(vcs)
                         \/ vcs = None /\ EndsWith(src.v, <<".", "g", "i", "t">>)
                /\ DiagnosticsFor(key) = IF key \in DOMAIN packages THEN 0 ELSE 1

\* C5 (amended): the same, with the kind inferred as git when src ends in .git
\* and vcs is absent or resolves to something that is not a string.
C5_Loaded ==
    lstate = "done" =>
        \A key \in ManifestKeys :
            LET src == Resolved(key, "src")
                vcs == Resolved(key, "vcs")
            IN  /\ key \in DOMAIN packages <=>
                      /\ src.k = "str"
                      /\ \/ IsRegistered(vcs)
                         \/ vcs.k # "str" /\ EndsWith(src.v, <<".", "g", "i", "t">>)
                /\ key \in DOMAIN packages =>
                      packages[key].origin.kind
                          = IF vcs.k = "str" THEN VcsByName(vcs.v) ELSE "git"
                /\ DiagnosticsFor(key) = IF key \in DOMAIN packages THEN 0 ELSE 1

\* entry a is dropped with its one diagnostic and entry b is still loaded
C5_Witness ==
    /\ lstate = "done"
    /\ "a" \notin DOMAIN packages
    /\ "b" \in DOMAIN packages
    /\ DiagnosticsFor("a") = 1
    /\ Len(errs) = 1

LoaderEnded == lstate \notin {"start", "packages"}

\* C6: every visited entry's load is true when it resolved to nothing, unchanged
\* when a boolean or a sequence, [x] when a string x; a load of any other kind
\* ends the whole load with a TypeError, and no package set is returned.
C6_LoadNormalized ==
    /\ \A i \in 1..lpc :
          LET key == input.order[i]
              r == Resolved(key, "load")
              got == config.package[key]["load"]
          IN  CASE r = None                 -> got = Bool(TRUE)
                [] r.k \in {"bool", "list"} -> got = r
                [] r.k = "str"              -> got = List(<<r>>)
                [] OTHER                    -> FALSE
    /\ (LoaderEnded /\ \E key \in ManifestKeys :
            Resolved(key, "load").k \notin {"none", "bool", "list", "str"})
          => lstate = "TypeError"

\* load = 'one' has become ['one'] on a returned package
C6_Witness ==
    /\ lstate = "done"
    /\ "a" \in DOMAIN packages
    /\ "load" \in DOMAIN input.package["a"]
    /\ input.package["a"]["load"] = SOne
    /\ config.package["a"]["load"] = List(<<SOne>>)

\* C7: a later read of dst through a loaded package's info names the path its
\* origin was made with, whether dst was given or defaulted to cwd/name.
C7_DstAgrees ==
    (Looked /\ look.key = "dst") =>
        /\ look.res.k = "str"
        /\ PathOf(look.res.v) = packages[look.pkg].origin.local

---------------------------------------------------------------------------
(* The origin operations, as main calls them *)

Called(m) == \E i \in 1..Len(ocall.trace) : ocall.trace[i] = m

\* the package of the last call
Callee == CHOOSE o \in { mpkgs[i] : i \in 1..Len(mpkgs) } : o.key = ocall.key

\* the commands the last call ran
NewCommands == SubSeq(cmds, ocall.ncmd + 1, Len(cmds))

\* the action the last call chose was invoked and ended without an error: its
\* command, if it runs one, exited with 0, and nothing was raised
ActionSucceeded ==
    /\ Called("_update") \/ Called("_clone")
    /\ \A i \in 1..Len(NewCommands) : NewCommands[i].code = 0
    /\ ~IsExc(ores)

\* refresh() goes to update() when the local path exists and to clone() otherwise
RefreshChooses ==
    ocall.op = "refresh" =>
        /\ Called("update") <=> ocall.pre[ocall.key].local # "absent"
        /\ Called("clone") <=> ocall.pre[ocall.key].local = "absent"

\* C8: for every kind, refresh() performs update() when the local path exists
\* and clone() otherwise, never both, and returns true exactly when the chosen
\* action succeeded and false when it did not.
C8_Refresh ==
    ocall.op = "refresh" =>
        /\ RefreshChooses
        /\ ~(Called("update") /\ Called("clone"))
        /\ ores = Bool(ActionSucceeded)

\* C9: when an external command exits with a non-zero code, the operation gives
\* a value (false for refresh) and raises nothing, and main goes on: it is not
\* ended by an exception, and its exit status is 0 once it has ended.
C9_FailureIsValue ==
    (NewCommands # <<>> /\ NewCommands[Len(NewCommands)].code # 0) =>
        /\ ~IsExc(ores)
        /\ ocall.op = "refresh" => ores = Bool(FALSE)
        /\ mstate # "raised"
        /\ ExitStatus \in {-1, 0}

\* a line of shell, read as the shell reads it: a double quote opens a word that
\* runs to the next unescaped double quote, and inside it a backslash before a
\* double quote or a backslash stands for that character alone
RECURSIVE ReadShell(_, _, _, _)
ReadShell(line, i, quoted, word) ==
    IF i > Len(line)
    THEN IF quoted THEN << [q |-> TRUE, w |-> <<"(unterminated)">>] >> ELSE <<>>
    ELSE IF ~quoted
    THEN IF line[i] = "\"" THEN ReadShell(line, i + 1, TRUE, <<>>)
         ELSE << [q |-> FALSE, w |-> <<line[i]>>] >> \o ReadShell(line, i + 1, FALSE, <<>>)
    ELSE IF line[i] = "\"" THEN << [q |-> TRUE, w |-> word] >> \o ReadShell(line, i + 1, FALSE, <<>>)
    ELSE IF line[i] = "\\" /\ i < Len(line) /\ line[i + 1] \in {"\"", "\\"}
    THEN ReadShell(line, i + 2, TRUE, Append(word, line[i + 1]))
    ELSE ReadShell(line, i + 1, TRUE, Append(word, line[i]))

Words(line) == ReadShell(line, 1, FALSE, <<>>)

Text(s) == [q |-> FALSE, w |-> <<s>>]
Quoted(s) == [q |-> TRUE, w |-> s]

\* the script of an origin, word by word
ScriptOf(o) ==
    << << Text("mkdir -p "), Quoted(PathParent(o.local)) >> >>
    \o CASE o.kind = "git" ->
              << << Text("if test -d "), Quoted(o.local) >>,
                 << Text("then (cd "), Quoted(o.local), Text(" && git pull --rebase)") >>,
                 << Text("else git clone "), Quoted(o.remote), Text(" "), Quoted(o.local) >>,
                 << Text("fi") >> >>
         [] o.kind = "hg" ->
              << << Text("if test -d "), Quoted(o.local) >>,
                 << Text("then (cd "), Quoted(o.local), Text(" && hg pull -u)") >>,
                 << Text("else hg clone "), Quoted(o.remote), Text(" "), Quoted(o.local) >>,
                 << Text("fi") >> >>
         [] OTHER ->
              << << Text("test -d "), Quoted(o.local), Text(" || ln -s "),
                    Quoted(o.remote), Text(" "), Quoted(o.local) >> >>

\* C10: bootstrap() runs no external command and changes nothing on the
\* filesystem, whatever the kind and whatever is there; it writes to standard
\* output the mkdir -p line for the parent of local and then the kind's
\* fragment, each path or URL in double quotes with " and \ backslash-escaped.
C10_BootstrapOnlyPrints ==
    ocall.op = "bootstrap" =>
        /\ Len(cmds) = ocall.ncmd
        /\ fs = ocall.pre
        /\ Len(oerr) = ocall.nerr
        /\ ores = Bool(TRUE)
        /\ LET lines == SubSeq(out, ocall.nout + 1, Len(out))
           IN  [n \in 1..Len(lines) |-> Words(lines[n])] = ScriptOf(Callee)

\* the script of a git origin whose paths hold " and \ has been printed, over
\* a local path that does not exist
C10_Witness ==
    /\ ocall.op = "bootstrap"
    /\ Callee.kind = "git"
    /\ Callee.local = QuotedLocal
    /\ Callee.remote = QuotedRemote
    /\ fs[ocall.key].local = "absent"
    /\ Len(out) = ocall.nout + 5

---------------------------------------------------------------------------
(* Which packages main operates on *)

\* the load value is true or a list that is not empty
LoadAsks(pkg) == pkg.load = Bool(TRUE) \/ (pkg.load.k = "list" /\ Len(pkg.load.v) > 0)

OperatedOn(key, op) == \E i \in 1..Len(mlog) : mlog[i] = <<key, op>>

\* C11: bootstrap, refresh and status are applied to a selected package iff the
\* include-all flag is given or its load value is true or a non-empty list; a
\* package with load = false is operated on only with include-all.
C11_LoadFilter ==
    /\ \A i \in 1..Len(mlog) :
          \E n \in 1..Len(mpkgs) :
              /\ mpkgs[n].key = mlog[i][1]
              /\ margs.all \/ LoadAsks(mpkgs[n])
              /\ margs[mlog[i][2]]
    /\ mstate = "done" =>
          \A n \in 1..Len(mpkgs), op \in {"bootstrap", "refresh", "status"} :
              OperatedOn(mpkgs[n].key, op) <=> (margs[op] /\ (margs.all \/ LoadAsks(mpkgs[n])))

\* package b has load = false and is left out, package a with load = ['one']
\* has its script printed
C11_Witness ==
    /\ mstate = "done"
    /\ ~margs.all
    /\ margs.package = <<>>
    /\ mpkgs[1].load = List(<<SOne>>)
    /\ mpkgs[2].load = Bool(FALSE)
    /\ mlog = << <<"a", "bootstrap">> >>
    /\ Len(out) > 0

---------------------------------------------------------------------------
(* The list of a variant *)

\* the load value is true, or a list that holds the variant's name
LoadNames(load, variant) ==
    load = Bool(TRUE)
    \/ (load.k = "list" /\ Str(VariantChars[variant]) \in { load.v[i] : i \in 1..Len(load.v) })

\* the lines of the packages keys[i..] that are in the list, in that order
RECURSIVE LinesInOrder(_, _)
LinesInOrder(variant, keys) ==
    IF keys = <<>> THEN <<>>
    ELSE (IF LoadNames(config.package[Head(keys)]["load"], variant)
          THEN LinesOf(InfoScope(Head(keys)), ListPart(input.list, variant, "pkeys"),
                       ListPart(input.list, variant, "pitems")).v
          ELSE <<>>) \o LinesInOrder(variant, Tail(keys))

\* C12: build_list(variant) emits a package's lines iff its load value is true or
\* a list containing the variant's name; other packages contribute no line, and
\* each line is formatted with the package's own values, in package order.
C12_ListFilter ==
    (lout.variant # "-" /\ ~IsExc(lout.res)) =>
        lout.res.v = LinesOf(GlobalScope(config.global, input.env),
                             ListPart(input.list, lout.variant, "gkeys"),
                             ListPart(input.list, lout.variant, "gitems")).v
                     \o LinesInOrder(lout.variant, loaded)
                     \o <<Str(<<>>)>>

\* list one over a (load = ['one', 'two']) and b (load = false): the line of a
\* and nothing of b
C12_Witness ==
    /\ lout.variant = "one"
    /\ loaded = <<"a", "b">>
    /\ config.package["a"]["load"] = List(<<SOne, STwo>>)
    /\ config.package["b"]["load"] = Bool(FALSE)
    /\ lout.res = List(<< Str(<<"a", "=", "a">>), Str(<<>>) >>)

---------------------------------------------------------------------------
(* A key that a package and its template both hold *)

InBoth(pkg, key) ==
    /\ key \in DOMAIN Layers(pkg)[1]
    /\ key \in DOMAIN Layers(pkg)[2]

\* the deep merge of the package's value over the template's value
DeepMerged(pkg, key) ==
    NdUpdate([k \in {key} |-> Layers(pkg)[2][key]], [k \in {key} |-> Layers(pkg)[1][key]])

\* C13 (as stated): for a key that a package and its template both hold, the
\* value read for the package is the deep merge of the two: mappings merged,
\* sequences concatenated with the template's first.
C13_AsStated ==
    (Looked /\ look.key \notin ReservedKeys /\ InBoth(look.pkg, look.key)
       /\ DeepMerged(look.pkg, look.key).err = <<>>) =>
        look.res = ReadOf(look.pkg, DeepMerged(look.pkg, look.key).d[look.key])

\* C13 (amended): for a key that a package and its template both hold, the value
\* read for the package is the package's own value; nothing of the template's
\* value is merged into it.
C13_OwnValue ==
    (Looked /\ look.key \notin ReservedKeys /\ InBoth(look.pkg, look.key)) =>
        look.res = ReadOf(look.pkg, Layers(look.pkg)[1][look.key])

\* v = [1] in the package, v = [2] in its template: the read gives [1]
C13_Witness ==
    /\ Looked
    /\ look.key = "v"
    /\ InBoth(look.pkg, "v")
    /\ Layers(look.pkg)[1]["v"] = List(<<IntV(1)>>)
    /\ Layers(look.pkg)[2]["v"] = List(<<IntV(2)>>)
    /\ look.res = List(<<IntV(1)>>)

---------------------------------------------------------------------------
(* Placeholder chains that come back to themselves *)

\* the keys the value of key names in placeholders
RefsIn(sc, key) ==
    IF ChainHas(sc, key) /\ ChainGet(sc, key).k = "str" /\ IsTemplate(ChainGet(sc, key).v)
    THEN RefsOf(TokensOf(ChainGet(sc, key).v))
    ELSE {}

\* the keys reached from the keys of S in at most n steps
RECURSIVE Within(_, _, _)
Within(sc, S, n) ==
    IF n = 0 THEN S ELSE Within(sc, S \cup UNION { RefsIn(sc, key) : key \in S }, n - 1)

\* the keys on the placeholder chains that start at key, key included
Reach(sc, key) == Within(sc, {key}, Cardinality(ExpandKeys))

\* some chain from key comes back to a key it has passed
Cyclic(sc, key) ==
    \E r \in Reach(sc, key) : r \in Within(sc, RefsIn(sc, r), Cardinality(ExpandKeys))

\* every key on the chains from key is in the scope, and every string there is
\* literal text and {identifier} placeholders
Clean(sc, key) ==
    \A r \in Reach(sc, key) :
        /\ ChainHas(sc, r)
        /\ ChainGet(sc, r).k = "str" => IsTemplate(ChainGet(sc, r).v)

\* C14 (as stated): get(key) of a key whose placeholder chain is self-referential
\* or mutually recursive ends with RecursionError; it returns neither a value
\* nor the caller's default.
C14_AsStated ==
    (Asked /\ Cyclic(escope, ekey)) => eres = Exc("RecursionError")

\* C14 (amended): the same, when every placeholder on the chains from key names
\* a key of the scope and every string on them is well formed.
C14_Recursion ==
    (Asked /\ Cyclic(escope, ekey) /\ Clean(escope, ekey)) => eres = Exc("RecursionError")

\* a = '{b}' with b = '{a}': get('a') ends with RecursionError
C14_Witness ==
    /\ ekey = "a"
    /\ "b" \in DOMAIN escope[1]
    /\ escope[1]["a"] = Str(<<"{", "b", "}">>)
    /\ escope[1]["b"] = Str(<<"{", "a", "}">>)
    /\ eres = Exc("RecursionError")

---------------------------------------------------------------------------
(* Definitions on the command line *)

\* the value at a dotted name of a tree, None where there is none
RECURSIVE ValueAt(_, _)
ValueAt(d, name) ==
    IF name[1] \notin DOMAIN d THEN None
    ELSE IF Len(name) = 1 THEN d[name[1]]
    ELSE IF d[name[1]].k = "map" THEN ValueAt(d[name[1]].v, Tail(name))
    ELSE None

\* C15: after -D NAME VALUE the input is read without an error and NAME holds
\* the string VALUE, whatever value of whatever kind the files gave NAME
C15_DefineOverrides ==
    ndDef # NoDef => (ndErr = <<>> /\ ValueAt(ndD, ndDef.name) = Str(ndDef.value))

---------------------------------------------------------------------------
(* Guarded operations *)

\* the origin of the last call, and its files before and after the call
TheOrigin == mpkgs[1]
Before == ocall.pre[ocall.key]
Now == fs[ocall.key]

\* the local path of an origin of a kind is missing, is not a directory, or lacks
\* the kind's marker or the expected link target
Invalid(kind, f) ==
    \/ f.local = "absent"
    \/ f.local = "file"
    \/ kind \in {"git", "hg"} /\ f.local # Marker[kind]
    \/ kind = "ln" /\ f.local # "link"

\* the last call took no backend action and changed nothing
NoBackendAction ==
    /\ \A i \in 1..Len(ocall.trace) : ocall.trace[i] \notin {"_update", "_clone", "_status", "_run"}
    /\ Len(cmds) = ocall.ncmd
    /\ fs = ocall.pre

\* C16: update() returns false and status() returns ERROR when the validity
\* check fails, clone() returns false when the local path exists, and in each
\* case no command is run, no link is made and the filesystem is as it was
C16_Guarded ==
    (mstate \in {"origin", "raised"} /\ ocall.op # "-") =>
        /\ (ocall.op = "update" /\ Invalid(TheOrigin.kind, Before))
               => (ores = Bool(FALSE) /\ NoBackendAction)
        /\ (ocall.op = "status" /\ Invalid(TheOrigin.kind, Before))
               => (ores = Status("ERROR") /\ NoBackendAction)
        /\ (ocall.op = "clone" /\ Before.local # "absent")
               => (ores = Bool(FALSE) /\ NoBackendAction)

\* C16: update() was called on a git origin whose local path is a directory
\* that is no repository, and returned false
C16_Witness ==
    /\ mstate = "origin"
    /\ ocall.op = "update"
    /\ TheOrigin.kind = "git"
    /\ Before.local = "dir"
    /\ ores = Bool(FALSE)

---------------------------------------------------------------------------
(* What clone() leaves behind *)

\* the last call was clone(), from a state without the local path, and its
\* action ran without an error
Cloned ==
    /\ mstate = "origin"
    /\ ocall.op = "clone"
    /\ Before.local = "absent"
    /\ \E i \in 1..Len(ocall.trace) : ocall.trace[i] = "_clone"
    /\ ~IsExc(ores)

\* C17: after clone() ran its action without error from a state without the
\* local path, the local path exists and passes the kind's check, the next
\* refresh() calls update() and not clone(), and status() is not ERROR
C17_CloneMaterializes ==
    Cloned =>
        /\ Now.local # "absent"
        /\ ~Invalid(TheOrigin.kind, Now)
        /\ \A code \in ExitCodes, noisy \in BOOLEAN :
              /\ refresh(TheOrigin, Now, code, noisy).trace[2] = "update"
              /\ status(TheOrigin, Now, code, noisy).ret # Status("ERROR")

---------------------------------------------------------------------------
(* Replacing a list file *)

\* a list file that existed is being replaced: the steps after the visit began
Replacing == wcur # "-" /\ wprev # Missing /\ wpc \in {"backup", "rename", "open", "write", "raised"}

\* C18: at every point of the replacement of an existing list file, whatever
\* its configured name, the content the file had is in the file or in its
\* .bak sibling
C18_BackupSafe ==
    Replacing => (wfiles[File] = wprev \/ wfiles[BakOf(File)] = wprev)

---------------------------------------------------------------------------
(* The order of the operations *)

\* the place of a key in the manifest
ManifestPlace(key) == CHOOSE i \in 1..Len(Manifest) : Manifest[i] = key

\* C19: the operations are called on the packages in manifest order, whatever
\* the order in which --package named them
C19_ManifestOrder ==
    \A i \in 1..Len(mlog), j \in 1..Len(mlog) :
        i < j => ManifestPlace(mlog[i][1]) <= ManifestPlace(mlog[j][1])

---------------------------------------------------------------------------
(* The status commands *)

\* the last call ran exactly the command argv, in the local directory
RanOnly(argv) ==
    /\ Len(NewCommands) = 1
    /\ NewCommands[1].argv = argv
    /\ NewCommands[1].cwd = TheOrigin.local

\* C20: when the check passes, status() runs exactly git status --porcelain=2
\* in the local directory on a git origin, exactly hg status on a Mercurial
\* origin, both returning UNKNOWN, and on a link origin runs no command and
\* returns UNCHANGED
C20_StatusCommands ==
    (ocall.op = "status" /\ ~Invalid(TheOrigin.kind, Before)) =>
        CASE TheOrigin.kind = "git" ->
               RanOnly(<<"git", "status", "--porcelain=2">>) /\ ores = Status("UNKNOWN")
          [] TheOrigin.kind = "hg" ->
               RanOnly(<<"hg", "status">>) /\ ores = Status("UNKNOWN")
          [] OTHER ->
               NewCommands = <<>> /\ ores = Status("UNCHANGED")

=============================================================================
